---- MODULE Spec2Model ----
(***************************************************************************)
(* react-grain-state (src/src/index.js): the path-indexed listener tree    *)
(* (class ListenerTree), the value accessor (dataSetter) and the           *)
(* synchronization facade (useNexus).                                      *)
(*                                                                         *)
(* Path segments are ordinary string keys: keys that collide with the      *)
(* reserved "__listeners" field or with Object.prototype members, and      *)
(* integer-like keys (which Object.keys reorders), are outside the model.  *)
(***************************************************************************)
EXTENDS Integers, Sequences, FiniteSets, TLC

\* ------------------------------------------------------------------ bounds
MaxDepth == 2
MaxRegs == 2
MaxLinks == 1
MaxSets == 2
MaxRenders == 3

Keys == {"a", "b"}
Listeners == {"L1", "L2"}

\* Paths handed to the operations, the empty path included.
Paths == UNION {[1..n -> Keys] : n \in 0..MaxDepth}

Prefix(p, i) == SubSeq(p, 1, i)

IsPrefix(p, q) == Len(p) <= Len(q) /\ Prefix(q, Len(p)) = p

Comparable(p, q) == IsPrefix(p, q) \/ IsPrefix(q, p)

\* -------------------------------------------------------------- state
VARIABLES
  tree,          \* ListenerTree.tree: node path -> [ls: __listeners, kids: child keys in Object.keys order]
  stateRef,      \* useNexus: stateRef.current, the root structure
  state,         \* useNexus: `state`, the root the closures of the last render captured
  shared,        \* whether `state` and stateRef.current are one and the same object
  nexusUpdateAt, \* useNexus: the revision token (number of coarse sets so far)
  call,          \* the operation last called, with its arguments ("idle": none in progress)
  calls,         \* the listener invocations of that call, in order
  err,           \* how that call ended: "none" or the error it raised
  treeBefore,    \* this.tree as it was when that call was entered
  links          \* the useLink consumers: what the last render of each one left

vars == <<tree, stateRef, state, shared, nexusUpdateAt, call, calls, err, treeBefore, links>>

\* ------------------------------------------------------ ListenerTree
\* constructor: this.tree = {} (the root node has no __listeners field).
NewTree == (<< >> :> [ls |-> << >>, kids |-> << >>])

\* node[key] = { __listeners: [] }
NewNode(T, node, key) ==
  [n \in DOMAIN T \cup {Append(node, key)} |->
     IF n = Append(node, key) THEN [ls |-> << >>, kids |-> << >>]
     ELSE IF n = node THEN [T[n] EXCEPT !.kids = Append(@, key)]
     ELSE T[n]]

\* add: the loop over the keys of path, from key number i on.
RECURSIVE AddWalk(_, _, _)
AddWalk(T, path, i) ==
  IF i > Len(path) THEN T
  ELSE AddWalk(IF Prefix(path, i) \in DOMAIN T THEN T
               ELSE NewNode(T, Prefix(path, i - 1), path[i]),
               path, i + 1)

\* Mutant of Push: a registration that is skipped when the callback is already listed.
PushOnce(ls, callback) ==
  IF \E i \in DOMAIN ls : ls[i] = callback THEN ls ELSE Append(ls, callback)

\* node.__listeners.push(callback)
Push(ls, callback) == Append(ls, callback)

\* add(path, callback). At the root node __listeners is undefined, so push raises.
AddOp(T, path, callback) ==
  IF path = << >> THEN [tree |-> T, err |-> "TypeError"]
  ELSE LET T1 == AddWalk(T, path, 1)
       IN [tree |-> [T1 EXCEPT ![path].ls = Push(@, callback)], err |-> "none"]

\* Mutant of FilterOut: only the first registration of the callback is taken out.
RECURSIVE FilterFirst(_, _)
FilterFirst(ls, callback) ==
  IF ls = << >> THEN << >>
  ELSE IF Head(ls) = callback THEN Tail(ls)
  ELSE <<Head(ls)>> \o FilterFirst(Tail(ls), callback)

\* node.__listeners.filter((cb) => cb !== callback)
FilterOut(ls, callback) == SelectSeq(ls, LAMBDA cb : cb # callback)

\* delete parent[key]
DeleteChild(T, parent, key) ==
  [n \in DOMAIN T \ {Append(parent, key)} |->
     IF n = parent THEN [T[n] EXCEPT !.kids = SelectSeq(@, LAMBDA k : k # key)]
     ELSE T[n]]

\* Mutant of Prune: the clean-up loop left out.
PruneNever(T, path, i) == T

\* Mutant of Prune: an `if` in place of the `while`, so only the last node is looked at.
PruneOnce(T, path, i) ==
  IF i = 0 THEN T
  ELSE IF T[Prefix(path, i)].kids = << >> /\ T[Prefix(path, i)].ls = << >>
       THEN DeleteChild(T, Prefix(path, i - 1), path[i])
       ELSE T

\* remove: the clean-up loop, popping the stack entry of key number i.
RECURSIVE Prune(_, _, _)
Prune(T, path, i) ==
  IF i = 0 THEN T
  ELSE IF T[Prefix(path, i)].kids = << >> /\ T[Prefix(path, i)].ls = << >>
       THEN Prune(DeleteChild(T, Prefix(path, i - 1), path[i]), path, i - 1)
       ELSE T

\* Mutant of RemoveOp: a walk that raises on a key without a node, like dataSetter.
RemoveOpStrict(T, path, callback) ==
  IF \E i \in 1..Len(path) : Prefix(path, i) \notin DOMAIN T
    THEN [tree |-> T, err |-> "TypeError"]
  ELSE IF path = << >> THEN [tree |-> T, err |-> "TypeError"]
  ELSE [tree |-> Prune([T EXCEPT ![path].ls = FilterOut(@, callback)], path, Len(path)),
        err |-> "none"]

\* remove(path, callback)
RemoveOp(T, path, callback) ==
  IF \E i \in 1..Len(path) : Prefix(path, i) \notin DOMAIN T
    THEN [tree |-> T, err |-> "none"]
  ELSE IF path = << >> THEN [tree |-> T, err |-> "TypeError"]
  ELSE [tree |-> Prune([T EXCEPT ![path].ls = FilterOut(@, callback)], path, Len(path)),
        err |-> "none"]

\* node.__listeners.forEach((cb) => cb(...)), as invocation records
Invoke(T, node) == [i \in 1..Len(T[node].ls) |-> [cb |-> T[node].ls[i], node |-> node]]

\* Mutant of notifyCallbacks: the listeners of the node alone, without its subtree.
notifyCallbacksShallow(T, node) == Invoke(T, node)

\* notify: notifyCallbacks(node), and its loop over Object.keys(node) from kid i on.
RECURSIVE notifyCallbacks(_, _)
RECURSIVE NotifyKids(_, _, _)
notifyCallbacks(T, node) == Invoke(T, node) \o NotifyKids(T, node, 1)

NotifyKids(T, node, i) ==
  IF i > Len(T[node].kids) THEN << >>
  ELSE notifyCallbacks(T, Append(node, T[node].kids[i])) \o NotifyKids(T, node, i + 1)

\* notify: the first loop; the number of leading keys of path that have a node.
RECURSIVE Descend(_, _, _)
Descend(T, path, i) ==
  IF i > Len(path) \/ Prefix(path, i) \notin DOMAIN T THEN i - 1
  ELSE Descend(T, path, i + 1)

\* notify: the second loop, from key number i on; parentNode is Prefix(path, i - 1).
RECURSIVE NotifyParents(_, _, _)
NotifyParents(T, path, i) ==
  IF i > Len(path) THEN [calls |-> << >>, err |-> "none"]
  ELSE IF Prefix(path, i - 1) \notin DOMAIN T THEN [calls |-> << >>, err |-> "TypeError"]
  ELSE LET rest == NotifyParents(T, path, i + 1)
       IN [calls |-> Invoke(T, Prefix(path, i - 1)) \o rest.calls, err |-> rest.err]

\* A listener of `raise` raises when invoked: the invocations up to the first such one.
RECURSIVE UntilRaise(_, _)
UntilRaise(cs, raise) ==
  IF cs = << >> THEN << >>
  ELSE IF Head(cs).cb \in raise THEN <<Head(cs)>>
  ELSE <<Head(cs)>> \o UntilRaise(Tail(cs), raise)

Raised(cs, raise) == \E i \in DOMAIN cs : cs[i].cb \in raise

\* Mutant of NotifyOp: every callback called inside try/catch, as notifyAll calls them.
NotifyOpGuarded(T, path, raise) ==
  LET down == notifyCallbacks(T, Prefix(path, Descend(T, path, 1)))
      up == NotifyParents(T, path, 1)
  IN [calls |-> down \o up.calls, err |-> up.err]

\* notify(path)
NotifyOp(T, path, raise) ==
  LET down == notifyCallbacks(T, Prefix(path, Descend(T, path, 1)))
      up == NotifyParents(T, path, 1)
      all == down \o up.calls
  IN IF Raised(all, raise) THEN [calls |-> UntilRaise(all, raise), err |-> "ListenerError"]
     ELSE [calls |-> all, err |-> up.err]

\* notifyAll: traverseAndNotify(node), and its loop over Object.keys(node) from kid i
\* on. Every callback is called inside try/catch, so one that raises stops nothing.
RECURSIVE traverseAndNotify(_, _)
RECURSIVE TraverseKids(_, _, _)
traverseAndNotify(T, node) == Invoke(T, node) \o TraverseKids(T, node, 1)

TraverseKids(T, node, i) ==
  IF i > Len(T[node].kids) THEN << >>
  ELSE traverseAndNotify(T, Append(node, T[node].kids[i])) \o TraverseKids(T, node, i + 1)

\* Mutant of NotifyAllOp: the callbacks called without try/catch, as notify calls them.
NotifyAllOpUnguarded(T, raise) ==
  LET all == traverseAndNotify(T, << >>)
  IN IF Raised(all, raise) THEN [calls |-> UntilRaise(all, raise), err |-> "ListenerError"]
     ELSE [calls |-> all, err |-> "none"]

\* notifyAll()
NotifyAllOp(T, raise) == [calls |-> traverseAndNotify(T, << >>), err |-> "none"]

\* ------------------------------------------- listeners that call remove
\* A pass in which listener re.by, each time it is invoked, calls
\* remove(re.path, re.cb) on the tree it is invoked from. The operators below give the
\* invocations of the pass and the tree it leaves.

\* Mutant of InvokeRe: forEach iterating the list remove has just made, so that a
\* registration taken out while the list is iterated is not invoked any more.
InvokeReLive(T, node, re) ==
  IF \E i \in DOMAIN T[node].ls : T[node].ls[i] = re.by
  THEN LET ls == T[node].ls
           k == CHOOSE i \in DOMAIN ls : ls[i] = re.by /\ \A j \in 1..(i - 1) : ls[j] # re.by
           rest == IF node = re.path THEN FilterOut(SubSeq(ls, k + 1, Len(ls)), re.cb)
                   ELSE SubSeq(ls, k + 1, Len(ls))
           live == SubSeq(ls, 1, k) \o rest
       IN [calls |-> [i \in 1..Len(live) |-> [cb |-> live[i], node |-> node]],
           tree |-> RemoveOp(T, re.path, re.cb).tree]
  ELSE [calls |-> Invoke(T, node), tree |-> T]

\* node.__listeners.forEach(...): forEach iterates the array that was the list when
\* it was called, and remove puts a new array in its place (filter), so every
\* registration of that array is invoked.
InvokeRe(T, node, re) ==
  [calls |-> Invoke(T, node),
   tree |-> IF \E i \in DOMAIN T[node].ls : T[node].ls[i] = re.by
            THEN RemoveOp(T, re.path, re.cb).tree
            ELSE T]

\* notifyCallbacks(node): Object.keys(node) is read once the listeners of the node
\* have run, and node[key] when its turn comes: a child deleted by then is skipped.
RECURSIVE notifyCallbacksRe(_, _, _)
RECURSIVE NotifyKidsRe(_, _, _, _, _)
notifyCallbacksRe(T, node, re) ==
  LET own == InvokeRe(T, node, re)
      keys == IF node \in DOMAIN own.tree THEN own.tree[node].kids ELSE << >>
      rest == NotifyKidsRe(own.tree, node, keys, 1, re)
  IN [calls |-> own.calls \o rest.calls, tree |-> rest.tree]

NotifyKidsRe(T, node, keys, i, re) ==
  IF i > Len(keys) THEN [calls |-> << >>, tree |-> T]
  ELSE LET kid == IF Append(node, keys[i]) \in DOMAIN T
                  THEN notifyCallbacksRe(T, Append(node, keys[i]), re)
                  ELSE [calls |-> << >>, tree |-> T]
           rest == NotifyKidsRe(kid.tree, node, keys, i + 1, re)
       IN [calls |-> kid.calls \o rest.calls, tree |-> rest.tree]

\* notify: the second loop; parentNode[key] and parentNode.__listeners are read from
\* the tree as it is when the loop gets there.
RECURSIVE NotifyParentsRe(_, _, _, _)
NotifyParentsRe(T, path, i, re) ==
  IF i > Len(path) THEN [calls |-> << >>, tree |-> T, err |-> "none"]
  ELSE IF Prefix(path, i - 1) \notin DOMAIN T
    THEN [calls |-> << >>, tree |-> T, err |-> "TypeError"]
  ELSE LET own == InvokeRe(T, Prefix(path, i - 1), re)
           rest == NotifyParentsRe(own.tree, path, i + 1, re)
       IN [calls |-> own.calls \o rest.calls, tree |-> rest.tree, err |-> rest.err]

\* notify(path)
NotifyReOp(T, path, re) ==
  LET down == notifyCallbacksRe(T, Prefix(path, Descend(T, path, 1)), re)
      up == NotifyParentsRe(down.tree, path, 1, re)
  IN [calls |-> down.calls \o up.calls, tree |-> up.tree, err |-> up.err]

\* notifyAll(): traverseAndNotify reads the list, the keys and the children at the
\* same points as notifyCallbacks does.
NotifyAllReOp(T, re) ==
  LET all == notifyCallbacksRe(T, << >>, re)
  IN [calls |-> all.calls, tree |-> all.tree, err |-> "none"]

\* ------------------------------------------------------------ helpers
Count(T, p, cb) == IF p \in DOMAIN T THEN Len(SelectSeq(T[p].ls, LAMBDA x : x = cb)) ELSE 0

RECURSIVE SumLs(_, _)
SumLs(T, S) == IF S = {} THEN 0
               ELSE LET n == CHOOSE x \in S : TRUE IN Len(T[n].ls) + SumLs(T, S \ {n})

Regs(T) == SumLs(T, DOMAIN T)

Invocations(cs, cb) == Len(SelectSeq(cs, LAMBDA c : c.cb = cb))

\* No listener of the call calls back into the tree.
NoRe == [by |-> "none", path |-> << >>, cb |-> "none"]

Idle == [op |-> "idle", path |-> << >>, hasPath |-> FALSE, cb |-> "none", raise |-> {},
         value |-> "none", re |-> NoRe]

\* --------------------------------------------------------- root values
\* A root structure is a map from the paths it holds to "obj" (a container) or a leaf.
\* useNexus(initialData) with initialData = {a: {b: "v0"}}
InitialData == (<<"a">> :> "obj") @@ (<<"a", "b">> :> "v0")

EmptyRoot == [q \in {} |-> "obj"]

\* the values setNexusWithSelector writes
Values == {"v1"}

\* createSelector(path), and a selector object without a path property
Selectors == {[hasPath |-> TRUE, path |-> p] : p \in Paths}
               \cup {[hasPath |-> FALSE, path |-> << >>]}

\* object[key] read along a path: "undefined" where nothing is stored
Lookup(O, q) == IF q = << >> THEN "obj" ELSE IF q \in DOMAIN O THEN O[q] ELSE "undefined"

\* current[key] = newValue on a container: the old value and all below it are replaced
Assign(O, p, v) ==
  [q \in {x \in DOMAIN O : ~IsPrefix(p, x)} \cup {p} |-> IF q = p THEN v ELSE O[q]]

\* dataSetter: `current` after i rounds of its loop, "TypeError" once a round has
\* read a property of undefined.
RECURSIVE Deref(_, _, _)
Deref(O, path, i) ==
  IF i = 0 THEN "obj"
  ELSE IF Deref(O, path, i - 1) \in {"TypeError", "undefined"} THEN "TypeError"
  ELSE Lookup(O, Prefix(path, i))

\* Mutant of dataSetter: safe navigation (current?.[key]) that gives up silently on a
\* path it cannot follow.
dataSetterLenient(O, selector, newValue) ==
  IF ~selector.hasPath THEN [obj |-> O, err |-> "InvalidSelector"]
  ELSE IF selector.path = << >>
    THEN [obj |-> Assign(O, <<"undefined">>, newValue), err |-> "none"]
  ELSE IF Deref(O, selector.path, Len(selector.path) - 1) = "obj"
    THEN [obj |-> Assign(O, selector.path, newValue), err |-> "none"]
  ELSE [obj |-> O, err |-> "none"]

\* dataSetter(object, selector, newValue). `!path` is false for the empty array, and
\* path[path.length - 1] is then undefined, which names the key "undefined". Module
\* code is strict: assigning a property of a primitive raises, like one of undefined.
dataSetter(O, selector, newValue) ==
  IF ~selector.hasPath THEN [obj |-> O, err |-> "InvalidSelector"]
  ELSE IF selector.path = << >>
    THEN [obj |-> Assign(O, <<"undefined">>, newValue), err |-> "none"]
  ELSE IF Deref(O, selector.path, Len(selector.path) - 1) = "obj"
    THEN [obj |-> Assign(O, selector.path, newValue), err |-> "none"]
  ELSE [obj |-> O, err |-> "TypeError"]

\* the updater functions handed to set: old => ({...old, [key]: "v2"})
Updaters == Keys

ApplyUpdater(key, old) == Assign(old, <<key>>, "v2")

\* the literal roots handed to set
NewRoots == {EmptyRoot}

\* ------------------------------------------------------------- useLink
\* the components that call useLink on the one facade
Consumers == {"c1", "c2"}

\* updateLinkFromNexus of consumer c: useCallback gives a new function whenever one of
\* its dependencies has changed; v numbers the functions of the consumer.
Handle(c, v) == [c |-> c, v |-> v]

\* A consumer that is not mounted; ver is the number of callbacks it has made so far.
NoLink == [mounted |-> FALSE, path |-> << >>, subscribed |-> FALSE, ver |-> 0,
           pending |-> FALSE, eff |-> [live |-> FALSE, ver |-> 0]]

\* Mutant of EffectCleanup: a clean-up that removes the callback of the latest render
\* instead of the one its own effect registered.
EffectCleanupLatest(T, c, l) ==
  IF l.eff.live THEN RemoveOp(T, l.path, Handle(c, l.ver)).tree ELSE T

\* the function the subscription effect returned, run before the next effect and on
\* unmount: removeListener(selector, updateLinkFromNexus) of the closure of that effect
EffectCleanup(T, c, l) ==
  IF l.eff.live THEN RemoveOp(T, l.path, Handle(c, l.eff.ver)).tree ELSE T

\* the subscription effect: removeListener, then addListener if subscribed
EffectBody(T, c, l) ==
  LET T1 == RemoveOp(T, l.path, Handle(c, l.ver)).tree
  IN IF l.subscribed THEN AddOp(T1, l.path, Handle(c, l.ver)).tree ELSE T1

\* ------------------------------------------------------------- actions
Init ==
  /\ tree = NewTree
  /\ stateRef = InitialData
  /\ state = InitialData
  /\ shared = TRUE
  /\ nexusUpdateAt = 0
  /\ call = Idle
  /\ calls = << >>
  /\ err = "none"
  /\ treeBefore = NewTree
  /\ links = [c \in Consumers |-> NoLink]

Add(path, callback) ==
  /\ call.op = "idle"
  /\ Regs(tree) < MaxRegs
  /\ LET r == AddOp(tree, path, callback)
     IN /\ tree' = r.tree
        /\ err' = r.err
  /\ calls' = << >>
  /\ call' = [Idle EXCEPT !.op = "add", !.path = path, !.hasPath = TRUE, !.cb = callback]
  /\ treeBefore' = tree
  /\ UNCHANGED <<stateRef, state, shared, nexusUpdateAt, links>>

Remove(path, callback) ==
  /\ call.op = "idle"
  /\ LET r == RemoveOp(tree, path, callback)
     IN /\ tree' = r.tree
        /\ err' = r.err
  /\ calls' = << >>
  /\ call' = [Idle EXCEPT !.op = "remove", !.path = path, !.hasPath = TRUE, !.cb = callback]
  /\ treeBefore' = tree
  /\ UNCHANGED <<stateRef, state, shared, nexusUpdateAt, links>>

Notify(path, raise) ==
  /\ call.op = "idle"
  /\ LET r == NotifyOp(tree, path, raise)
     IN /\ calls' = r.calls
        /\ err' = r.err
  /\ call' = [Idle EXCEPT !.op = "notify", !.path = path, !.hasPath = TRUE, !.raise = raise]
  /\ treeBefore' = tree
  /\ UNCHANGED <<tree, stateRef, state, shared, nexusUpdateAt, links>>

NotifyAll(raise) ==
  /\ call.op = "idle"
  /\ LET r == NotifyAllOp(tree, raise)
     IN /\ calls' = r.calls
        /\ err' = r.err
  /\ call' = [Idle EXCEPT !.op = "notifyAll", !.raise = raise]
  /\ treeBefore' = tree
  /\ UNCHANGED <<tree, stateRef, state, shared, nexusUpdateAt, links>>

\* the listener that calls remove from inside a pass, and the one it removes
Remover == "L1"
Removed == "L2"

\* notify(path) while listener Remover calls remove(q, Removed) when invoked.
NotifyRemoving(path, q) ==
  /\ call.op = "idle"
  /\ Count(tree, q, Removed) > 0
  /\ LET re == [by |-> Remover, path |-> q, cb |-> Removed]
         r == NotifyReOp(tree, path, re)
     IN /\ calls' = r.calls
        /\ err' = r.err
        /\ tree' = r.tree
        /\ call' = [Idle EXCEPT !.op = "notifyRemoving", !.path = path, !.hasPath = TRUE,
                                !.re = re]
  /\ treeBefore' = tree
  /\ UNCHANGED <<stateRef, state, shared, nexusUpdateAt, links>>

\* notifyAll() while listener Remover calls remove(q, Removed) when invoked.
NotifyAllRemoving(q) ==
  /\ call.op = "idle"
  /\ Count(tree, q, Removed) > 0
  /\ LET re == [by |-> Remover, path |-> q, cb |-> Removed]
         r == NotifyAllReOp(tree, re)
     IN /\ calls' = r.calls
        /\ err' = r.err
        /\ tree' = r.tree
        /\ call' = [Idle EXCEPT !.op = "notifyAllRemoving", !.re = re]
  /\ treeBefore' = tree
  /\ UNCHANGED <<stateRef, state, shared, nexusUpdateAt, links>>

\* ------------------------------------------------------------ useNexus
\* link.addListener(selector, callback); without a path, `for (const key of undefined)` raises.
AddListener(selector, callback) ==
  /\ call.op = "idle"
  /\ Regs(tree) < MaxLinks
  /\ LET r == IF selector.hasPath THEN AddOp(tree, selector.path, callback)
               ELSE [tree |-> tree, err |-> "TypeError"]
     IN /\ tree' = r.tree
        /\ err' = r.err
  /\ calls' = << >>
  /\ call' = [Idle EXCEPT !.op = "addListener", !.path = selector.path,
                          !.hasPath = selector.hasPath, !.cb = callback]
  /\ treeBefore' = tree
  /\ UNCHANGED <<stateRef, state, shared, nexusUpdateAt, links>>

\* link.removeListener(selector, callback)
RemoveListener(selector, callback) ==
  /\ call.op = "idle"
  /\ LET r == IF selector.hasPath THEN RemoveOp(tree, selector.path, callback)
               ELSE [tree |-> tree, err |-> "TypeError"]
     IN /\ tree' = r.tree
        /\ err' = r.err
  /\ calls' = << >>
  /\ call' = [Idle EXCEPT !.op = "removeListener", !.path = selector.path,
                          !.hasPath = selector.hasPath, !.cb = callback]
  /\ treeBefore' = tree
  /\ UNCHANGED <<stateRef, state, shared, nexusUpdateAt, links>>

\* link.setNexusWithSelector(selector, newValue): dataSetter on the captured `state`,
\* then notify, which is not reached when dataSetter raises.
SetNexusWithSelector(selector, newValue, raise) ==
  /\ call.op = "idle"
  /\ LET w == dataSetter(state, selector, newValue)
         n == NotifyOp(tree, selector.path, raise)
     IN /\ state' = w.obj
        /\ stateRef' = IF shared THEN w.obj ELSE stateRef
        /\ calls' = IF w.err = "none" THEN n.calls ELSE << >>
        /\ err' = IF w.err = "none" THEN n.err ELSE w.err
  /\ call' = [Idle EXCEPT !.op = "setWithSelector", !.path = selector.path,
                          !.hasPath = selector.hasPath, !.raise = raise,
                          !.value = newValue]
  /\ treeBefore' = tree
  /\ UNCHANGED <<tree, shared, nexusUpdateAt, links>>

\* set(valueOrFunction) with a function: stateRef.current = valueOrFunction(state)
SetStateFunction(key) ==
  /\ call.op = "idle"
  /\ nexusUpdateAt < MaxSets
  /\ stateRef' = ApplyUpdater(key, state)
  /\ shared' = FALSE
  /\ nexusUpdateAt' = nexusUpdateAt + 1
  /\ call' = [Idle EXCEPT !.op = "setFunction", !.path = <<key>>]
  /\ calls' = << >>
  /\ err' = "none"
  /\ treeBefore' = tree
  /\ UNCHANGED <<tree, state, links>>

\* Mutant of SetStateValue: a set that runs notifyAll on the listener tree.
SetStateValueNotifying(newRoot) ==
  /\ call.op = "idle"
  /\ nexusUpdateAt < MaxSets
  /\ stateRef' = newRoot
  /\ shared' = FALSE
  /\ nexusUpdateAt' = nexusUpdateAt + 1
  /\ call' = [Idle EXCEPT !.op = "setValue"]
  /\ calls' = NotifyAllOp(tree, {}).calls
  /\ err' = "none"
  /\ treeBefore' = tree
  /\ UNCHANGED <<tree, state, links>>

\* set(valueOrFunction) with a literal root: stateRef.current = valueOrFunction
SetStateValue(newRoot) ==
  /\ call.op = "idle"
  /\ nexusUpdateAt < MaxSets
  /\ stateRef' = newRoot
  /\ shared' = FALSE
  /\ nexusUpdateAt' = nexusUpdateAt + 1
  /\ call' = [Idle EXCEPT !.op = "setValue"]
  /\ calls' = << >>
  /\ err' = "none"
  /\ treeBefore' = tree
  /\ UNCHANGED <<tree, state, links>>

\* The owning component renders again: const state = stateRef.current
Render ==
  /\ call.op = "idle"
  /\ ~shared
  /\ state' = stateRef
  /\ shared' = TRUE
  /\ UNCHANGED <<tree, stateRef, nexusUpdateAt, call, calls, err, treeBefore, links>>

\* A component calling useLink(state, {path, subscribed}) renders for the first time.
Mount(c, path, subscribed) ==
  /\ call.op = "idle"
  /\ ~links[c].mounted
  /\ links[c].ver < MaxRenders
  /\ links' = [links EXCEPT ![c] =
                 [mounted |-> TRUE, path |-> path, subscribed |-> subscribed,
                  ver |-> links[c].ver + 1, pending |-> TRUE,
                  eff |-> [live |-> FALSE, ver |-> 0]]]
  /\ UNCHANGED <<tree, stateRef, state, shared, nexusUpdateAt, call, calls, err, treeBefore>>

\* The component renders again with a dependency of updateLinkFromNexus changed:
\* `subscribed`, or state.current (rootChanged). Effects of the render before have
\* been flushed by then; the selector is the one of the first render.
Rerender(c, subscribed, rootChanged) ==
  /\ call.op = "idle"
  /\ links[c].mounted
  /\ ~links[c].pending
  /\ links[c].ver < MaxRenders
  /\ subscribed # links[c].subscribed \/ rootChanged
  /\ links' = [links EXCEPT ![c].subscribed = subscribed, ![c].ver = @ + 1,
                            ![c].pending = TRUE]
  /\ UNCHANGED <<tree, stateRef, state, shared, nexusUpdateAt, call, calls, err, treeBefore>>

\* The effects of the last render run: the clean-up of the effect before, if any,
\* then the subscription effect.
FlushEffect(c) ==
  /\ call.op = "idle"
  /\ links[c].mounted
  /\ links[c].pending
  /\ tree' = EffectBody(EffectCleanup(tree, c, links[c]), c, links[c])
  /\ links' = [links EXCEPT ![c].pending = FALSE,
                            ![c].eff = [live |-> TRUE, ver |-> links[c].ver]]
  /\ UNCHANGED <<stateRef, state, shared, nexusUpdateAt, call, calls, err, treeBefore>>

\* The component unmounts: the clean-up of its effect runs.
Unmount(c) ==
  /\ call.op = "idle"
  /\ links[c].mounted
  /\ ~links[c].pending
  /\ tree' = EffectCleanup(tree, c, links[c])
  /\ links' = [links EXCEPT ![c] = [NoLink EXCEPT !.ver = links[c].ver]]
  /\ UNCHANGED <<stateRef, state, shared, nexusUpdateAt, call, calls, err, treeBefore>>

\* The call returns to its caller.
Return ==
  /\ call.op # "idle"
  /\ call' = Idle
  /\ calls' = << >>
  /\ err' = "none"
  /\ treeBefore' = tree
  /\ UNCHANGED <<tree, stateRef, state, shared, nexusUpdateAt, links>>

\* The ListenerTree class on its own.
TreeNext ==
  \/ \E p \in Paths, cb \in Listeners : Add(p, cb)
  \/ \E p \in Paths, cb \in Listeners : Remove(p, cb)
  \/ \E p \in Paths, raise \in SUBSET Listeners : Notify(p, raise)
  \/ \E raise \in SUBSET Listeners : NotifyAll(raise)
  \/ Return

TreeSpec == Init /\ [][TreeNext]_vars

\* The link operations of the facade useNexus returns, between two coarse sets.
Next ==
  \/ \E sel \in Selectors, cb \in Listeners : AddListener(sel, cb)
  \/ \E sel \in Selectors, cb \in Listeners : RemoveListener(sel, cb)
  \/ \E sel \in Selectors, v \in Values, raise \in SUBSET Listeners :
       SetNexusWithSelector(sel, v, raise)
  \/ Return

Spec == Init /\ [][Next]_vars

\* The root of the facade: coarse sets, renders and fine-grained writes.
NexusNext ==
  \/ \E key \in Updaters : SetStateFunction(key)
  \/ \E r \in NewRoots : SetStateValue(r)
  \/ \E sel \in Selectors, v \in Values : SetNexusWithSelector(sel, v, {})
  \/ Render
  \/ Return

NexusSpec == Init /\ [][NexusNext]_vars

\* Coarse sets and renders of a facade whose listener tree holds registrations.
CoarseNext ==
  \/ \E sel \in Selectors, cb \in Listeners : AddListener(sel, cb)
  \/ \E key \in Updaters : SetStateFunction(key)
  \/ \E r \in NewRoots : SetStateValue(r)
  \/ Render
  \/ Return

CoarseSpec == Init /\ [][CoarseNext]_vars

\* The ListenerTree class with a listener that removes another one during a pass.
ReentrantNext ==
  \/ \E p \in Paths, cb \in Listeners : Add(p, cb)
  \/ \E p \in Paths, q \in Paths \ {<< >>} : NotifyRemoving(p, q)
  \/ \E q \in Paths \ {<< >>} : NotifyAllRemoving(q)
  \/ Return

ReentrantSpec == Init /\ [][ReentrantNext]_vars

\* The useLink consumers of one facade through their lifecycle.
LinkNext ==
  \/ \E c \in Consumers, p \in Paths \ {<< >>}, sub \in BOOLEAN : Mount(c, p, sub)
  \/ \E c \in Consumers, sub \in BOOLEAN, ch \in BOOLEAN : Rerender(c, sub, ch)
  \/ \E c \in Consumers : FlushEffect(c)
  \/ \E c \in Consumers : Unmount(c)

LinkSpec == Init /\ [][LinkNext]_vars

\* the paths of the selectors a fine-grained write is made through while listeners
\* that raise are registered
FaultPaths == {<<"a">>, <<"a", "b">>}

\* Fine-grained writes and notifications over a tree of listeners that may raise.
FaultNext ==
  \/ \E p \in Paths, cb \in Listeners : Add(p, cb)
  \/ \E p \in FaultPaths, v \in Values, raise \in SUBSET Listeners :
       SetNexusWithSelector([hasPath |-> TRUE, path |-> p], v, raise)
  \/ \E p \in FaultPaths, raise \in SUBSET Listeners : Notify(p, raise)
  \/ Return

FaultSpec == Init /\ [][FaultNext]_vars

\* ------------------------------------------------------------- claims
\* cb is registered at node q of T and at no other node.
RegisteredOnlyAt(T, cb, q) ==
  /\ Count(T, q, cb) > 0
  /\ \A n \in DOMAIN T : n # q => Count(T, n, cb) = 0

\* Some key of p has no node in T.
MissingSegment(T, p) == \E i \in 1..Len(p) : Prefix(p, i) \notin DOMAIN T

\* Some key of p but the last is absent from the root O.
BrokenPath(O, p) == \E i \in 1..(Len(p) - 1) : Prefix(p, i) \notin DOMAIN O

\* Every key of p but the last names a container of the root O.
ContainersExist(O, p) == \A i \in 1..(Len(p) - 1) : Lookup(O, Prefix(p, i)) = "obj"

\* C1: notify(p) invokes no listener that is registered only at a path q which is
\* neither a prefix of p nor has p as a prefix, whether or not p has a node.
C1_NoCrossBranchLeakage ==
  call.op = "notify" =>
    \A q \in DOMAIN tree, cb \in Listeners :
      (~Comparable(call.path, q) /\ RegisteredOnlyAt(tree, cb, q))
        => Invocations(calls, cb) = 0

\* C2: with listeners that do not raise, notify(p) on a path with a missing segment
\* returns without raising.
C2_MissingPathNotAnError ==
  (call.op = "notify" /\ call.raise = {} /\ MissingSegment(tree, call.path))
    => err = "none"

\* C3: setWithSelector with an empty-path selector fails with InvalidSelector, leaves
\* the root as it was and invokes no listener.
C3_EmptyPathRejected ==
  [][(call'.op = "setWithSelector" /\ call'.hasPath /\ call'.path = << >>)
       => /\ err' = "InvalidSelector"
          /\ state' = state
          /\ stateRef' = stateRef
          /\ calls' = << >>]_vars

\* C4: with listeners that do not raise, setWithSelector on a non-empty path whose
\* intermediate containers all exist in the root completes without error, whatever
\* the listener tree holds.
C4_FailsOnlyAsSetAtFails ==
  [][(/\ call'.op = "setWithSelector"
      /\ call'.raise = {}
      /\ call'.hasPath
      /\ call'.path # << >>
      /\ ContainersExist(state, call'.path))
       => err' = "none"]_vars

\* C5: setWithSelector on a path with an intermediate segment absent from the root
\* raises a dereference error, leaves the root as it was and invokes no listener.
C5_BrokenPathFailsFast ==
  [][(call'.op = "setWithSelector" /\ call'.hasPath /\ BrokenPath(state, call'.path))
       => /\ err' = "TypeError"
          /\ state' = state
          /\ stateRef' = stateRef
          /\ calls' = << >>]_vars

\* C5 witness: a write through a broken path has failed while a listener was
\* registered on a prefix of that path.
C5_Witness ==
  /\ call.op = "setWithSelector"
  /\ call.hasPath
  /\ BrokenPath(state, call.path)
  /\ err = "TypeError"
  /\ calls = << >>
  /\ \E cb \in Listeners : Count(tree, Prefix(call.path, 1), cb) > 0

\* C6: each add(p, L) makes one more registration of L at p, and notify(p), with
\* listeners that do not raise, invokes a listener registered at no other path exactly
\* as many times as it is registered at p.
C6_OncePerRegistration ==
  /\ (call.op = "add" /\ err = "none")
       => Count(tree, call.path, call.cb) = Count(treeBefore, call.path, call.cb) + 1
  /\ (call.op = "notify" /\ call.raise = {} /\ call.path # << >>)
       => \A cb \in Listeners :
            (\A n \in DOMAIN tree : n # call.path => Count(tree, n, cb) = 0)
              => Invocations(calls, cb) = Count(tree, call.path, cb)

\* C6 witness: notify(p) has invoked twice a listener registered twice at p.
C6_Witness ==
  /\ call.op = "notify"
  /\ call.raise = {}
  /\ call.path # << >>
  /\ Count(tree, call.path, "L1") = 2
  /\ Invocations(calls, "L1") = 2

\* C7: with listeners that do not raise, notify(p) invokes exactly once a listener
\* registered once at a non-empty strict prefix q of p and nowhere else, whether or
\* not the tree has nodes for the keys of p beyond q.
C7_AncestorOnce ==
  (call.op = "notify" /\ call.raise = {} /\ call.path # << >>)
    => \A q \in DOMAIN tree, cb \in Listeners :
         (/\ q # << >>
          /\ q # call.path
          /\ IsPrefix(q, call.path)
          /\ Count(tree, q, cb) = 1
          /\ RegisteredOnlyAt(tree, cb, q))
           => Invocations(calls, cb) = 1

\* C8: with listeners that do not raise, notify(p) on a non-empty path p invokes
\* exactly once a listener registered once at a path q that has p as a strict
\* prefix, and nowhere else.
C8_DescendantOnce ==
  (call.op = "notify" /\ call.raise = {} /\ call.path # << >>)
    => \A q \in DOMAIN tree, cb \in Listeners :
         (/\ q # call.path
          /\ IsPrefix(call.path, q)
          /\ Count(tree, q, cb) = 1
          /\ RegisteredOnlyAt(tree, cb, q))
           => Invocations(calls, cb) = 1

\* C8 witness: notify(p) has invoked once a listener registered one level below p,
\* after the listener of another node of the subtree.
C8_Witness ==
  /\ call.op = "notify"
  /\ call.raise = {}
  /\ Len(call.path) = 1
  /\ \E k \in Keys :
       /\ Count(tree, Append(call.path, k), "L1") = 1
       /\ RegisteredOnlyAt(tree, "L1", Append(call.path, k))
  /\ Len(calls) = 2
  /\ calls[2].cb = "L1"
  /\ calls[1].cb = "L2"
  /\ calls[1].node # calls[2].node

\* C9: once remove(p, L) has returned for a non-empty path p, L is not registered at
\* p; and from then until add(p, L) is called no step registers L at p and no notify
\* or notifyAll invokes L through node p: a registration of L at p after a step was
\* there before the step unless the step is add(p, L), and every invocation of a call
\* goes through a registration that was there when the call was made.
C9_UnsubscriptionEffective ==
  [][/\ (call'.op = "remove" /\ call'.path # << >>)
          => Count(tree', call'.path, call'.cb) = 0
     /\ \A p \in DOMAIN tree' \ {<< >>}, cb \in Listeners :
          Count(tree', p, cb) > 0
            => \/ Count(tree, p, cb) > 0
               \/ (call'.op = "add" /\ call'.path = p /\ call'.cb = cb)
     /\ \A i \in DOMAIN calls' :
          Count(tree, calls'[i].node, calls'[i].cb) > 0]_vars

\* C9 witness: remove(p, L) has returned where L was registered twice at p.
C9_Witness ==
  /\ call.op = "remove"
  /\ call.path # << >>
  /\ err = "none"
  /\ Count(treeBefore, call.path, call.cb) = 2
  /\ Count(tree, call.path, call.cb) = 0

\* C10: for the tree T of any state between two calls, a non-empty path p and a
\* listener L not registered at p, add(p, L) followed by remove(p, L) gives T again:
\* the same nodes, in the same order, with the same listener lists.
C10_AddRemoveRoundTrip ==
  call.op = "idle" =>
    \A p \in Paths \ {<< >>}, cb \in Listeners :
      Count(tree, p, cb) = 0
        => RemoveOp(AddOp(tree, p, cb).tree, p, cb).tree = tree

\* C10 witness: remove(p, L) has returned on the tree add(p, L) made of the present
\* one; the two nodes add created are gone and the nodes that were there remain.
C10_Witness ==
  /\ call.op = "remove"
  /\ err = "none"
  /\ Len(call.path) = 2
  /\ Count(tree, call.path, call.cb) = 0
  /\ treeBefore = AddOp(tree, call.path, call.cb).tree
  /\ Cardinality(DOMAIN treeBefore) = Cardinality(DOMAIN tree) + 2
  /\ Cardinality(DOMAIN tree) > 1

\* The invocations of cs that go through node n with callback cb.
InvocationsAt(cs, n, cb) == Len(SelectSeq(cs, LAMBDA c : c.cb = cb /\ c.node = n))

\* Node n of T has a child node.
HasChild(T, n) == \E m \in DOMAIN T : Len(m) = Len(n) + 1 /\ IsPrefix(n, m)

\* C11: after any sequence of add and remove calls every node of the tree but the
\* root has at least one registered listener or at least one child node.
C11_PruningInvariant ==
  \A n \in DOMAIN tree \ {<< >>} : tree[n].ls # << >> \/ HasChild(tree, n)

\* C11 witness: remove(p, L) has emptied the listener list of node p, which stays
\* because it has a child, and has left the rest of the tree in place.
C11_Witness ==
  /\ call.op = "remove"
  /\ call.path \in DOMAIN tree \ {<< >>}
  /\ Count(treeBefore, call.path, call.cb) > 0
  /\ tree[call.path].ls = << >>
  /\ HasChild(tree, call.path)

\* C12: remove(p, L) on a path with a key that has no node raises no error and leaves
\* the whole tree as it was.
C12_RemoveMissingIsNoOp ==
  (call.op = "remove" /\ MissingSegment(treeBefore, call.path))
    => (err = "none" /\ tree = treeBefore)

\* C12 witness: remove(p, L) has returned where the first key of p has a node holding
\* L and the second key has none.
C12_Witness ==
  /\ call.op = "remove"
  /\ Len(call.path) = 2
  /\ MissingSegment(treeBefore, call.path)
  /\ Count(treeBefore, Prefix(call.path, 1), call.cb) > 0
  /\ err = "none"
  /\ tree = treeBefore

\* C13: add([], L) registers L at the root node without error, notify(p) on a
\* non-empty path then invokes it, and remove([], L) returns without error.
C13_RootSubscription ==
  /\ (call.op = "add" /\ call.path = << >>)
       => (err = "none" /\ Count(tree, << >>, call.cb) = Count(treeBefore, << >>, call.cb) + 1)
  /\ (call.op = "remove" /\ call.path = << >>) => err = "none"
  /\ (call.op = "notify" /\ call.raise = {} /\ call.path # << >>)
       => \A cb \in Listeners : Count(tree, << >>, cb) > 0 => Invocations(calls, cb) > 0

\* C14: notifyAll() invokes every registration of the tree exactly once, also when
\* listeners raise, and returns without raising.
C14_NotifyAllIsolatesFaults ==
  call.op = "notifyAll" =>
    /\ err = "none"
    /\ \A n \in DOMAIN tree, cb \in Listeners :
         InvocationsAt(calls, n, cb) = Count(tree, n, cb)

\* C14 witness: notifyAll() has invoked a listener that raises and, after it, one of
\* another node that does not.
C14_Witness ==
  /\ call.op = "notifyAll"
  /\ Len(calls) = 2
  /\ calls[1].cb \in call.raise
  /\ calls[2].cb \notin call.raise
  /\ calls[1].node # calls[2].node
  /\ err = "none"

\* C15: when a listener invoked by notify(p), or by the notify of setWithSelector,
\* raises, the call ends with that error, the raising invocation is the last one of
\* the call (the listeners after it in the order of a pass without faults are not
\* invoked), and the value setWithSelector wrote stays in the root.
C15_NotifyDoesNotIsolateFaults ==
  (call.op \in {"notify", "setWithSelector"} /\ Raised(calls, call.raise))
    => /\ err = "ListenerError"
       /\ calls[Len(calls)].cb \in call.raise
       /\ \A i \in 1..(Len(calls) - 1) : calls[i].cb \notin call.raise
       /\ Len(calls) <= Len(NotifyOp(tree, call.path, {}).calls)
       /\ calls = SubSeq(NotifyOp(tree, call.path, {}).calls, 1, Len(calls))
       /\ call.op = "setWithSelector"
            => (Lookup(state, call.path) = call.value /\ stateRef = state)

\* C15 witness: setWithSelector has written its value and ended with the error of
\* the first listener of the pass, with a second listener left uninvoked.
C15_Witness ==
  /\ call.op = "setWithSelector"
  /\ call.path = <<"a", "b">>
  /\ err = "ListenerError"
  /\ Len(calls) = 1
  /\ calls[1].cb \in call.raise
  /\ Len(NotifyOp(tree, call.path, {}).calls) = 2
  /\ NotifyOp(tree, call.path, {}).calls[2].cb \notin call.raise
  /\ Lookup(state, call.path) = call.value

\* C16: set(newRootOrUpdater) invokes no listener of the listener tree and leaves the
\* tree, nodes and listener lists, as it was; the root object the last render
\* captured is not written to either.
C16_CoarseSetBypassesTree ==
  [][call'.op \in {"setFunction", "setValue"}
       => /\ calls' = << >>
          /\ tree' = tree
          /\ state' = state
          /\ err' = "none"]_vars

\* C16 witness: set(R) has replaced the root while a listener was registered, and
\* neither invoked it nor touched the tree.
C16_Witness ==
  /\ call.op = "setValue"
  /\ Regs(tree) > 0
  /\ tree = treeBefore
  /\ calls = << >>
  /\ stateRef = EmptyRoot
  /\ state # stateRef

\* C17: set(f) with an updater f replaces the root of the facade by f applied to the
\* root the facade holds when set is called, whether or not the owning component has
\* rendered since the set before it.
C17_UpdaterAppliesToCurrentRoot ==
  [][call'.op = "setFunction" => stateRef' = ApplyUpdater(call'.path[1], stateRef)]_vars

\* C18: setWithSelector(sel, v) with a non-empty path whose containers exist in the
\* root the facade holds leaves v at that path of the root the facade holds, whether
\* or not the owning component has rendered since the last set.
C18_WriteLandsInCurrentRoot ==
  [][(/\ call'.op = "setWithSelector"
      /\ call'.hasPath
      /\ call'.path # << >>
      /\ ContainersExist(stateRef, call'.path))
       => Lookup(stateRef', call'.path) = call'.value]_vars

\* The registrations of consumer c at node n of T, whatever the callback.
LinkRegsAt(T, n, c) == Len(SelectSeq(T[n].ls, LAMBDA h : h.c = c))

\* The nodes of T that hold a registration of consumer c.
LinkNodes(T, c) == {n \in DOMAIN T : LinkRegsAt(T, n, c) > 0}

\* C19: once the effects of its last render have run, a consumer with a non-empty
\* path that is mounted with subscribed = true has exactly one registration in the
\* tree, at its path and of its latest callback; a consumer that is unmounted or has
\* subscribed = false has none; and every node of the tree but the root lies on the
\* path of a consumer that has a registration.
C19_OneRegistrationPerConsumer ==
  /\ \A c \in Consumers :
       ~links[c].pending =>
         IF links[c].mounted /\ links[c].subscribed
         THEN /\ LinkNodes(tree, c) = {links[c].path}
              /\ tree[links[c].path].ls # << >>
              /\ LinkRegsAt(tree, links[c].path, c) = 1
              /\ Count(tree, links[c].path, Handle(c, links[c].ver)) = 1
         ELSE LinkNodes(tree, c) = {}
  /\ \A n \in DOMAIN tree \ {<< >>} :
       \E c \in Consumers : LinkNodes(tree, c) # {} /\ IsPrefix(n, links[c].path)

\* C19 witness: a consumer has mounted subscribed, rendered again with a new callback
\* and then with subscribed = false, and has unmounted; the other consumer is still
\* registered on a path two keys long and the first one has left nothing behind.
C19_Witness ==
  /\ ~links["c1"].mounted
  /\ links["c1"].ver = 3
  /\ links["c2"].mounted
  /\ links["c2"].subscribed
  /\ ~links["c2"].pending
  /\ links["c2"].ver = 2
  /\ Len(links["c2"].path) = 2
  /\ DOMAIN tree = {<< >>, Prefix(links["c2"].path, 1), links["c2"].path}
  /\ tree[links["c2"].path].ls = <<Handle("c2", 2)>>

\* The position in cs of the first invocation of callback cb.
FirstInvocation(cs, cb) ==
  CHOOSE i \in DOMAIN cs : cs[i].cb = cb /\ \A j \in 1..(i - 1) : cs[j].cb # cb

\* The registrations of cb in the list ls after the first registration of by.
LaterInList(ls, by, cb) ==
  Cardinality({j \in DOMAIN ls : ls[j] = cb /\ \E i \in 1..(j - 1) : ls[i] = by})

\* The invocations of cb through node n in cs after position k.
InvokedAfter(cs, k, n, cb) ==
  Cardinality({j \in DOMAIN cs : j > k /\ cs[j].cb = cb /\ cs[j].node = n})

\* C20: in a pass of notify or notifyAll in which listener L1 calls remove(q, L2)
\* when invoked: if L1 is first invoked through node q itself, every registration of
\* L2 at q that comes after it in registration order is still invoked in the pass;
\* if L1 is first invoked before any listener of node q, L2 is not invoked through q
\* in the pass; either way the tree after the pass has no L2 at q.
C20_ReentrantRemovePerNode ==
  (call.op \in {"notifyRemoving", "notifyAllRemoving"} /\ Invocations(calls, call.re.by) > 0)
    => LET k == FirstInvocation(calls, call.re.by)
           q == call.re.path
       IN /\ calls[k].node = q
               => InvokedAfter(calls, k, q, call.re.cb)
                    = LaterInList(treeBefore[q].ls, call.re.by, call.re.cb)
          /\ (\A j \in 1..k : calls[j].node # q)
               => InvocationsAt(calls, q, call.re.cb) = 0
          /\ Count(tree, q, call.re.cb) = 0

\* C20 witness: notify(q) has invoked L1 and then L2, both registered at q in that
\* order, L1 having removed L2 in between; q is left with L1 alone.
C20_Witness ==
  /\ call.op = "notifyRemoving"
  /\ call.path = call.re.path
  /\ treeBefore[call.path].ls = <<Remover, Removed>>
  /\ calls = <<[cb |-> Remover, node |-> call.path], [cb |-> Removed, node |-> call.path]>>
  /\ tree[call.path].ls = <<Remover>>

====
